---- MODULE Spec2Model ----
(***************************************************************************)
(* Seat reservation and booking lifecycle of the airline booking backend   *)
(* (src/backend/main.py, models.py, database.py).                          *)
(*                                                                         *)
(* The store is the SQLite database behind SQLAlchemy sessions.  A request *)
(* handler reads rows into its session, changes attributes and commits;    *)
(* a commit flushes the attributes whose value differs from the one that   *)
(* was loaded (UPDATE ... WHERE id = ...), the new rows (INSERT) and the   *)
(* deleted rows (DELETE) in one transaction, which the UNIQUE and NOT NULL *)
(* constraints of models.py can abort.  The specifications share the      *)
(* handlers' definitions:                                                  *)
(*   Spec      every handler runs to completion, one after the other;      *)
(*   SpecConc  handlers of NumProcs concurrent requests interleave at      *)
(*             their reads and commits, within one clock period;           *)
(*   SpecRace  NumRacers createBooking calls of distinct users on one      *)
(*             free seat;                                                  *)
(*   SpecCheckIn  bookings, payments, cancellations and check-ins, one     *)
(*             after the other, at the instants around the check-in        *)
(*             window of the flight.                                       *)
(*   SpecPrice  staff edit seats while passengers hold, book, pay and      *)
(*             cancel and staff reassign seats, one after the other;       *)
(*   SpecSched  the background sweep of flight statuses, step by step,     *)
(*             beside staff status changes, on a server whose local time   *)
(*             is zone minutes ahead of UTC;                               *)
(*   SpecSchedFair  SpecSched with a sweep that keeps being scheduled;     *)
(*   SpecGate  gate updates and check-ins interleaved at their commits,    *)
(*             inside the check-in window.                                 *)
(*   SpecList  a seat listing split at its reads of the seats and of the   *)
(*             bookings, beside holds, bookings and payments;              *)
(*   SpecShutdown  SpecSched with the shutdown of the scheduler task.      *)
(* The users of Profiles have a completed passenger profile, the others    *)
(* have none and send complete inline passenger data with every booking;   *)
(* the columns main.py reads and writes are taken to be                    *)
(* mapped columns of the models.  Responses are modelled by their outcome  *)
(* (the error raised, or OK), not by their marshalled body.                *)
(***************************************************************************)
EXTENDS Integers, FiniteSets, Sequences, Bags, TLC

\* ---------------------------------------------------------------- bounds
NumUsers == 2
NumSeats == 2
MaxBookingId == 2
MaxTime == 20
NumProcs == 2
NumRacers == 3
MaxMult == 2
NumFlights == 2
MaxErrors == 1
NumGates == 2
NumTerminals == 1

\* ------------------------------------------------------ program constants
\* timedelta(minutes=10): the hold and the payment grace period
HoldMinutes == 10
\* flight.base_price of the modelled flight
BasePrice == 100
\* a NULL hold_expires_at
NoTime == -1

\* A gate is a string: its name, with or without the prefix "Gate".  NoGate
\* is a NULL gate.
GateNames == [pre : BOOLEAN, id : 1..NumGates]
NoGate == [pre |-> FALSE, id |-> 0]
\* gate if gate.startswith("Gate") else f"Gate {gate}"
WithPrefix(g) == [g EXCEPT !.pre = TRUE]

\* The clock advances by the hold period, so that "exactly at the expiry"
\* (one step) and "after the expiry" (two steps) are both reached.
TickStep == HoldMinutes

Users == 1..NumUsers
\* the users with a PassengerProfile row
Profiles == {1}
Seats == 1..NumSeats
\* seat id 0 is a seat of another flight: Seat.flight_id == flight_id fails
SeatIds == 0..NumSeats
BookingIds == 1..MaxBookingId
\* booking id 0 is an id no booking has
BookingArgs == 0..MaxBookingId
Racers == 1..NumRacers
\* flight 1 is the flight of the seats and bookings
Flights == 1..NumFlights
OtherFlights == 2..NumFlights

SeatStatus == {"AVAILABLE", "HELD", "BOOKED"}
BookingStatus == {"CREATED", "CONFIRMED", "CANCELLED"}
FlightStatus == {"SCHEDULED", "BOARDING", "DEPARTED", "ARRIVED", "DELAYED", "CANCELLED"}
PaymentStatus == {"PENDING", "PAID", "FAILED"}

VARIABLES
    now,          \* the wall clock, in minutes
    sec,          \* the seconds of the wall clock past the minute `now`
    flight,       \* Flight.status of the modelled flight
    seats,        \* seat id -> [status, hold, mult]
    bookings,     \* booking id -> [user, seat, status, created, price], the rows that exist
    payments,     \* booking id -> [status, txn], the Payment rows (booking_id is unique);
                  \* txn n stands for the n-th random transaction id drawn for the row
    tickets,      \* the booking ids that have a Ticket row
    checkins,     \* booking id -> CheckIn.boarding_gate, the CheckIn rows (booking_id
                  \* is unique)
    gate,         \* Flight.gate of flight 1
    terminal,     \* Flight.terminal of flight 1: 0 is NULL
    inflight,     \* the bag of requests in flight (SpecConc, SpecRace): each with its
                  \* position, its uncommitted writes and, once ended, its response
    fleet,        \* Flight.status of the other flights, which have no booking
    sched,        \* the scheduler task: its position in the sweep, the flights it
                  \* has selected, the time it read, the store errors it has met
    zone          \* the offset of the server's local time from UTC, in minutes

vars == <<now, sec, flight, seats, bookings, payments, tickets, checkins, gate, terminal,
          inflight, fleet, sched, zone>>

\* The committed database, as one value the handlers read.
DB == [flight |-> flight, seats |-> seats, bookings |-> bookings,
       payments |-> payments, tickets |-> tickets]

\* ------------------------------------------------------------- the store
Max(S) == IF S = {} THEN 0 ELSE CHOOSE x \in S : \A y \in S : y <= x

Restrict(f, S) == [x \in S |-> f[x]]

\* What one session has changed and not yet committed.
\*   del     bookings to DELETE
\*   ins     bookings to INSERT, [user, seat, price]
\*   bk      booking UPDATEs, [id, status, seat, price]: "-" and 0 leave a column alone
\*   st      seat UPDATEs, [id, status, hold]: "-" and <<>> leave a column alone
\*   pay     bookings to INSERT a PAID Payment for
\*   payUpd  bookings whose Payment is UPDATEd to PAID with a new transaction id
\*   tk      bookings to INSERT a Ticket for
\*   fl      the flight status to UPDATE, or "-"
\*   mu      seat price_multiplier UPDATEs, [id, mult]
\*   ann     announcements to INSERT, [type, user]: user 0 is no user_id
\* The announcements table is only appended to and no modelled handler reads
\* it: its rows are modelled as the result `ann` of the request that
\* commits them.
EmptyWS == [del |-> {}, ins |-> {}, bk |-> {}, st |-> {}, pay |-> {}, payUpd |-> {},
            tk |-> {}, fl |-> "-", mu |-> {}, ann |-> {}]

IsEmptyWS(ws) == ws = EmptyWS

\* The UPDATE of a seat that was loaded as `old` and now has (status, hold):
\* only the columns with a net change are written.
SeatDiff(id, old, status, hold) ==
    LET w == [id |-> id,
              status |-> IF status = old.status THEN "-" ELSE status,
              hold |-> IF hold = old.hold THEN <<>> ELSE <<hold>>]
    IN IF w.status = "-" /\ w.hold = <<>> THEN {} ELSE {w}

\* The UPDATE of a booking loaded as `old`.
BookingDiff(id, old, status, seat, price) ==
    LET w == [id |-> id,
              status |-> IF status = old.status THEN "-" ELSE status,
              seat |-> IF seat = old.seat THEN 0 ELSE seat,
              price |-> IF price = old.price THEN 0 ELSE price]
    IN IF w.status = "-" /\ w.seat = 0 /\ w.price = 0 THEN {} ELSE {w}

ApplySeat(s, w) ==
    [s EXCEPT !.status = IF w.status = "-" THEN @ ELSE w.status,
              !.hold = IF w.hold = <<>> THEN @ ELSE w.hold[1]]

ApplyBooking(b, w) ==
    [b EXCEPT !.status = IF w.status = "-" THEN @ ELSE w.status,
              !.seat = IF w.seat = 0 THEN @ ELSE w.seat,
              !.price = IF w.price = 0 THEN @ ELSE w.price]
\* The bookings table without the UNIQUE constraint on seat_id.
NoUniqueSeatRef(bks) == TRUE

\* Booking.seat_id, Payment.booking_id and Ticket.booking_id are UNIQUE.
UniqueSeatRef(bks) ==
    \A i, j \in DOMAIN bks : i # j => bks[i].seat # bks[j].seat

\* A Payment row left at the column default, with no transaction id.
NewPaymentPending(b) == [status |-> "PENDING", txn |-> 0]

\* The Payment row create_payment inserts for booking b: PAID, with its
\* first transaction id.
NewPayment(b) == [status |-> "PAID", txn |-> 1]

\* The rows after the write set, before the constraints are checked.  A new
\* row takes the id after the largest one in the table (SQLite's rowid).
Written(db, ws, t) ==
    LET kept == DOMAIN db.bookings \ ws.del
        upd == [i \in kept |->
                  IF \E w \in ws.bk : w.id = i
                  THEN ApplyBooking(db.bookings[i], CHOOSE w \in ws.bk : w.id = i)
                  ELSE db.bookings[i]]
        newId == Max(DOMAIN db.bookings) + 1
        bks == IF ws.ins = {} THEN upd
               ELSE LET n == CHOOSE n \in ws.ins : TRUE
                    IN upd @@ (newId :> [user |-> n.user, seat |-> n.seat, status |-> "CREATED",
                                         created |-> t, price |-> n.price])
        pays == [b \in DOMAIN db.payments \cup ws.pay |->
                   IF b \in ws.pay THEN NewPayment(b)
                   ELSE IF b \in ws.payUpd
                   THEN [status |-> "PAID", txn |-> db.payments[b].txn + 1]
                   ELSE db.payments[b]]
    IN [flight |-> IF ws.fl = "-" THEN db.flight ELSE ws.fl,
        seats |-> [s \in Seats |->
                     LET seat == IF \E w \in ws.mu : w.id = s
                                 THEN [db.seats[s] EXCEPT !.mult = (CHOOSE w \in ws.mu : w.id = s).mult]
                                 ELSE db.seats[s]
                     IN IF \E w \in ws.st : w.id = s
                        THEN ApplySeat(seat, CHOOSE w \in ws.st : w.id = s)
                        ELSE seat],
        bookings |-> bks,
        payments |-> pays,
        tickets |-> db.tickets \cup ws.tk]

\* Whether the transaction aborts: an UPDATE or DELETE of a row that is gone
\* (StaleDataError), the DELETE of a booking whose Payment or Ticket would be
\* left with a NULL booking_id, or a UNIQUE violation.
FlushFails(db, ws, t) ==
    \/ \E w \in ws.bk : w.id \notin DOMAIN db.bookings
    \/ \E d \in ws.del : d \notin DOMAIN db.bookings
    \/ \E d \in ws.del : d \in DOMAIN db.payments \/ d \in db.tickets
    \/ \E b \in ws.payUpd : b \notin DOMAIN db.payments
    \/ \E b \in ws.pay : b \in DOMAIN db.payments
    \/ ws.tk \cap db.tickets # {}
    \/ ~UniqueSeatRef(Written(db, ws, t).bookings)

\* db.commit(): all of the write set, or none of it.
Flush(db, ws, t) ==
    IF FlushFails(db, ws, t) THEN [ok |-> FALSE, db |-> db]
    ELSE [ok |-> TRUE, db |-> Written(db, ws, t)]

\* ---------------------------------------------------------- the handlers
\* A handler's read phase gives a plan: the writes its next commit flushes
\* (ws), the response it gives once they are committed (out), what it does
\* after that commit (then) and, for a listing, the statuses it reports.
Plan(ws, out) == [ws |-> ws, out |-> out, then |-> "", view |-> <<>>]

Reject(out) == Plan(EmptyWS, out)

Expired(hold, t) == hold # NoTime /\ hold < t

\* The bookings that reference seat s.
BookingsOfSeat(db, s) == {b \in DOMAIN db.bookings : db.bookings[b].seat = s}

\* hold_seat: POST /flights/{flight_id}/seats/{seat_id}/hold
hold_seat(db, s, t) ==
    IF s \notin Seats THEN Reject("NotFound")
    ELSE IF db.seats[s].status # "AVAILABLE" THEN Reject("SeatUnavailable")
    ELSE Plan([EmptyWS EXCEPT !.st = SeatDiff(s, db.seats[s], "HELD", t + HoldMinutes)], "OK")

\* get_flight_seats releasing a hold without clearing hold_expires_at.
ListedSeatKeepsExpiry(db, s, t) ==
    LET seat == db.seats[s]
    IN IF seat.status = "HELD"
          /\ \/ Expired(seat.hold, t)
             \/ ~\E b \in BookingsOfSeat(db, s) : db.bookings[b].status = "CREATED"
       THEN [seat EXCEPT !.status = "AVAILABLE"]
       ELSE seat

\* The seat as get_flight_seats leaves it in its session: an expired hold, or
\* a hold with no CREATED booking on the seat, becomes AVAILABLE.
ListedSeat(db, s, t) ==
    LET seat == db.seats[s]
    IN IF seat.status = "HELD"
          /\ \/ Expired(seat.hold, t)
             \/ ~\E b \in BookingsOfSeat(db, s) : db.bookings[b].status = "CREATED"
       THEN [seat EXCEPT !.status = "AVAILABLE", !.hold = NoTime]
       ELSE seat

\* get_flight_seats: GET /flights/{flight_id}/seats
get_flight_seats(db, t) ==
    [ws |-> [EmptyWS EXCEPT !.st = UNION {SeatDiff(s, db.seats[s], ListedSeat(db, s, t).status,
                                                   ListedSeat(db, s, t).hold) : s \in Seats}],
     out |-> "OK", then |-> "",
     view |-> [s \in Seats |-> ListedSeat(db, s, t).status]]

\* release_seat: DELETE /flights/{flight_id}/seats/{seat_id}/hold
release_seat(db, u, s) ==
    IF s \notin Seats THEN Reject("NotFound")
    ELSE IF db.seats[s].status = "HELD"
    THEN IF \E b \in BookingsOfSeat(db, s) :
               db.bookings[b].user = u /\ db.bookings[b].status = "CREATED"
         THEN Reject("ConflictingBooking")
         ELSE Plan([EmptyWS EXCEPT !.st = SeatDiff(s, db.seats[s], "AVAILABLE", NoTime)], "OK")
    ELSE IF db.seats[s].status = "BOOKED" THEN Reject("SeatBooked")
    ELSE Reject("OK")

\* create_booking keeping the hold expiry of a seat that is already HELD.
create_booking_insert_keeps_hold(db, u, s, t) ==
    Plan([EmptyWS EXCEPT
            !.ins = {[user |-> u, seat |-> s, price |-> BasePrice * db.seats[s].mult]},
            !.st = SeatDiff(s, db.seats[s], "HELD",
                            IF db.seats[s].status = "HELD" THEN db.seats[s].hold
                            ELSE t + HoldMinutes)],
         "OK")

\* create_booking from "Handle HELD seats" on: the new booking and the hold.
\* The seat is the one loaded in this session; the price is read here.
create_booking_insert(db, u, s, t) ==
    Plan([EmptyWS EXCEPT
            !.ins = {[user |-> u, seat |-> s, price |-> BasePrice * db.seats[s].mult]},
            !.st = SeatDiff(s, db.seats[s], "HELD", t + HoldMinutes)],
         "OK")

\* create_booking with no test of the flight's status.
create_booking_any_flight(db, u, s, t) ==
    IF s \notin Seats THEN Reject("NotFound")
    ELSE IF db.seats[s].status = "BOOKED" THEN Reject("SeatAlreadyBooked")
    ELSE IF BookingsOfSeat(db, s) = {} THEN create_booking_insert(db, u, s, t)
    ELSE LET b == CHOOSE b \in BookingsOfSeat(db, s) : TRUE
             existing == db.bookings[b]
         IN IF existing.status = "CANCELLED"
            THEN [Plan([EmptyWS EXCEPT !.del = {b}], "OK") EXCEPT !.then = "insert"]
            ELSE IF existing.user = u
            THEN IF existing.status = "CREATED" THEN Reject("DuplicatePendingBooking")
                 ELSE Reject("AlreadyBooked")
            ELSE IF existing.status = "CREATED" THEN Reject("SeatHeldByOther")
                 ELSE Reject("SeatTaken")

\* create_booking: POST /bookings, up to its first commit.  A CANCELLED
\* booking on the seat is deleted and committed first; the seat is then
\* loaded again, since the commit expired it.
create_booking(db, u, s, t) ==
    IF db.flight \in {"CANCELLED", "DEPARTED", "ARRIVED"} THEN Reject("FlightNotBookable")
    ELSE IF s \notin Seats THEN Reject("NotFound")
    ELSE IF db.seats[s].status = "BOOKED" THEN Reject("SeatAlreadyBooked")
    ELSE IF BookingsOfSeat(db, s) = {} THEN create_booking_insert(db, u, s, t)
    ELSE LET b == CHOOSE b \in BookingsOfSeat(db, s) : TRUE
             existing == db.bookings[b]
         IN IF existing.status = "CANCELLED"
            THEN [Plan([EmptyWS EXCEPT !.del = {b}], "OK") EXCEPT !.then = "insert"]
            ELSE IF existing.user = u
            THEN IF existing.status = "CREATED" THEN Reject("DuplicatePendingBooking")
                 ELSE Reject("AlreadyBooked")
            ELSE IF existing.status = "CREATED" THEN Reject("SeatHeldByOther")
                 ELSE Reject("SeatTaken")

\* get_my_bookings: GET /bookings
get_my_bookings(db, u, t) ==
    LET stale == {s \in Seats :
                    /\ \E b \in BookingsOfSeat(db, s) :
                          db.bookings[b].user = u /\ db.bookings[b].status = "CREATED"
                    /\ db.seats[s].status = "HELD"
                    /\ Expired(db.seats[s].hold, t)}
    IN Plan([EmptyWS EXCEPT !.st = UNION {SeatDiff(s, db.seats[s], "AVAILABLE", NoTime) : s \in stale}],
            "OK")

\* A cancellation that frees the seat and keeps its hold_expires_at.
CancelWritesKeepHold(db, b) ==
    LET bk == db.bookings[b]
    IN [EmptyWS EXCEPT
          !.st = SeatDiff(bk.seat, db.seats[bk.seat], "AVAILABLE", db.seats[bk.seat].hold),
          !.bk = BookingDiff(b, bk, "CANCELLED", bk.seat, bk.price)]

\* The writes that cancel booking b and release its seat.
CancelWrites(db, b) ==
    LET bk == db.bookings[b]
    IN [EmptyWS EXCEPT
          !.st = SeatDiff(bk.seat, db.seats[bk.seat], "AVAILABLE", NoTime),
          !.bk = BookingDiff(b, bk, "CANCELLED", bk.seat, bk.price)]

\* cancel_booking: DELETE /bookings/{booking_id}
cancel_booking(db, u, b) ==
    IF b \notin DOMAIN db.bookings THEN Reject("NotFound")
    ELSE IF db.bookings[b].user # u THEN Reject("NotAuthorized")
    ELSE IF db.flight = "DEPARTED" THEN Reject("FlightDeparted")
    ELSE IF db.bookings[b].status \notin {"CREATED", "CONFIRMED"} THEN Reject("NotCancellable")
    ELSE Plan(CancelWrites(db, b), "OK")

\* cancel_booking_staff: DELETE /staff/bookings/{booking_id}
cancel_booking_staff(db, b) ==
    IF b \notin DOMAIN db.bookings THEN Reject("NotFound")
    ELSE IF db.flight = "DEPARTED" THEN Reject("FlightDeparted")
    ELSE Plan(CancelWrites(db, b), "OK")

\* A confirmation that leaves the seat as it is.
ConfirmWritesBookingOnly(db, b) ==
    LET bk == db.bookings[b]
    IN [EmptyWS EXCEPT !.bk = BookingDiff(b, bk, "CONFIRMED", bk.seat, bk.price)]

\* The writes that confirm booking b: booking CONFIRMED, seat BOOKED.
ConfirmWrites(db, b) ==
    LET bk == db.bookings[b]
    IN [EmptyWS EXCEPT
          !.st = SeatDiff(bk.seat, db.seats[bk.seat], "BOOKED", NoTime),
          !.bk = BookingDiff(b, bk, "CONFIRMED", bk.seat, bk.price)]
\* The expiry test with the boundary instant counted as expired.
BookingExpiredInclusive(bk, t) == bk.status = "CREATED" /\ t >= bk.created + HoldMinutes

\* Whether create_payment takes its expiry path.
BookingExpired(bk, t) == bk.status = "CREATED" /\ t > bk.created + HoldMinutes

\* create_payment without its early return for a PAID payment: the payment
\* is processed again under a new transaction id.
create_payment_recharge(db, u, b, t) ==
    IF b \notin DOMAIN db.bookings THEN Reject("NotFound")
    ELSE IF db.bookings[b].user # u THEN Reject("NotAuthorized")
    ELSE IF BookingExpired(db.bookings[b], t) THEN Plan(CancelWrites(db, b), "BookingExpired")
    ELSE IF b \in DOMAIN db.payments
    THEN [Plan([ConfirmWrites(db, b) EXCEPT !.payUpd = {b}], "OK") EXCEPT !.then = "ticket_if_missing"]
    ELSE [Plan([ConfirmWrites(db, b) EXCEPT !.pay = {b}], "OK") EXCEPT !.then = "ticket"]

\* create_payment testing the expiry before the owner.
create_payment_expiry_first(db, u, b, t) ==
    IF b \notin DOMAIN db.bookings THEN Reject("NotFound")
    ELSE IF BookingExpired(db.bookings[b], t) THEN Plan(CancelWrites(db, b), "BookingExpired")
    ELSE IF db.bookings[b].user # u THEN Reject("NotAuthorized")
    ELSE IF b \in DOMAIN db.payments /\ db.payments[b].status = "PAID" THEN Reject("OK")
    ELSE IF b \in DOMAIN db.payments
    THEN [Plan([ConfirmWrites(db, b) EXCEPT !.payUpd = {b}], "OK") EXCEPT !.then = "ticket_if_missing"]
    ELSE [Plan([ConfirmWrites(db, b) EXCEPT !.pay = {b}], "OK") EXCEPT !.then = "ticket"]

\* create_payment: POST /payments, up to its first commit; the Ticket is
\* inserted by a second commit.
create_payment(db, u, b, t) ==
    IF b \notin DOMAIN db.bookings THEN Reject("NotFound")
    ELSE IF db.bookings[b].user # u THEN Reject("NotAuthorized")
    ELSE IF BookingExpired(db.bookings[b], t) THEN Plan(CancelWrites(db, b), "BookingExpired")
    ELSE IF b \in DOMAIN db.payments /\ db.payments[b].status = "PAID" THEN Reject("OK")
    ELSE IF b \in DOMAIN db.payments
    THEN [Plan([ConfirmWrites(db, b) EXCEPT !.payUpd = {b}], "OK") EXCEPT !.then = "ticket_if_missing"]
    ELSE [Plan([ConfirmWrites(db, b) EXCEPT !.pay = {b}], "OK") EXCEPT !.then = "ticket"]

\* reassign_seat: PATCH /staff/bookings/{booking_id}/reassign-seat
reassign_seat(db, b, ns) ==
    IF b \notin DOMAIN db.bookings THEN Reject("NotFound")
    ELSE IF db.flight = "DEPARTED" THEN Reject("FlightDeparted")
    ELSE IF ns \notin Seats THEN Reject("NotFound")
    ELSE IF /\ ns # db.bookings[b].seat
            /\ \E o \in BookingsOfSeat(db, ns) : db.bookings[o].status # "CANCELLED"
    THEN Reject("SeatTaken")
    ELSE LET bk == db.bookings[b]
             newStatus == IF bk.status = "CONFIRMED" THEN "BOOKED" ELSE "HELD"
         IN Plan([EmptyWS EXCEPT
                    !.st = (IF ns = bk.seat THEN {}
                            ELSE SeatDiff(bk.seat, db.seats[bk.seat], "AVAILABLE", NoTime))
                           \cup SeatDiff(ns, db.seats[ns], newStatus, NoTime),
                    !.bk = BookingDiff(b, bk, bk.status, ns, BasePrice * db.seats[ns].mult),
                    !.ann = {[type |-> "GENERAL", user |-> bk.user]}],
                 "OK")

\* The announcement type of update_flight_status's status_config.
StatusAnnouncementType(newStatus) ==
    IF newStatus = "BOARDING" THEN "BOARDING"
    ELSE IF newStatus = "DELAYED" THEN "DELAY"
    ELSE IF newStatus = "CANCELLED" THEN "CANCELLATION"
    ELSE "GENERAL"

\* Whether the flight has a CONFIRMED booking.
HasConfirmed(db) == \E b \in DOMAIN db.bookings : db.bookings[b].status = "CONFIRMED"

\* The announcement made whether or not the flight has a CONFIRMED booking.
announce_status_always(db, type) ==
    Plan([EmptyWS EXCEPT !.ann = {[type |-> type, user |-> 0]}], "OK")

\* The flight-wide announcement of a status change, inserted by a commit of
\* its own after the status is committed, if the flight has a CONFIRMED
\* booking then.
announce_status(db, type) ==
    IF HasConfirmed(db) THEN Plan([EmptyWS EXCEPT !.ann = {[type |-> type, user |-> 0]}], "OK")
    ELSE Reject("OK")

\* update_flight_status: PATCH /flights/{flight_id}/status, up to its first
\* commit.
update_flight_status(db, newStatus) ==
    IF newStatus = db.flight THEN Reject("OK")
    ELSE [Plan([EmptyWS EXCEPT !.fl = newStatus], "OK") EXCEPT !.then = "announce"]

\* update_seat also repricing the bookings on the seat.
update_seat_reprices(db, s, mult) ==
    IF s \notin Seats THEN Reject("NotFound")
    ELSE IF mult = 0 \/ mult = db.seats[s].mult THEN Reject("OK")
    ELSE Plan([EmptyWS EXCEPT
                 !.mu = {[id |-> s, mult |-> mult]},
                 !.bk = UNION {BookingDiff(b, db.bookings[b], db.bookings[b].status, s,
                                           BasePrice * mult) : b \in BookingsOfSeat(db, s)}],
              "OK")

\* update_seat: PATCH /staff/flights/{flight_id}/seats/{seat_id}, with a
\* price_multiplier (0 stands for a request without one).
update_seat(db, s, mult) ==
    IF s \notin Seats THEN Reject("NotFound")
    ELSE IF mult = 0 \/ mult = db.seats[s].mult THEN Reject("OK")
    ELSE Plan([EmptyWS EXCEPT !.mu = {[id |-> s, mult |-> mult]}], "OK")

\* What a handler does after a commit that does not end it.
Continuation(db, then, u, s, b, t) ==
    IF then = "insert" THEN create_booking_insert(db, u, s, t)
    ELSE IF then = "announce" THEN announce_status(db, StatusAnnouncementType(db.flight))
    ELSE IF then = "ticket" \/ b \notin db.tickets
    THEN Plan([EmptyWS EXCEPT !.tk = {b}], "OK")
    ELSE Reject("OK")

\* A handler run to its end on db: each commit either flushes or aborts the
\* request with a store error (an unhandled exception, HTTP 500).
\* `ann` is the announcements its commits inserted.
Run(db, plan, u, s, b, t) ==
    IF IsEmptyWS(plan.ws) THEN [db |-> db, out |-> plan.out, ann |-> {}]
    ELSE LET f == Flush(db, plan.ws, t)
         IN IF ~f.ok THEN [db |-> db, out |-> "StoreError", ann |-> {}]
            ELSE IF plan.then = "" THEN [db |-> f.db, out |-> plan.out, ann |-> plan.ws.ann]
            ELSE LET p2 == Continuation(f.db, plan.then, u, s, b, t)
                     f2 == Flush(f.db, p2.ws, t)
                 IN IF IsEmptyWS(p2.ws) THEN [db |-> f.db, out |-> p2.out, ann |-> plan.ws.ann]
                    ELSE IF f2.ok THEN [db |-> f2.db, out |-> p2.out,
                                        ann |-> plan.ws.ann \cup p2.ws.ann]
                    ELSE [db |-> f.db, out |-> "StoreError", ann |-> plan.ws.ann]

\* Run with an Announcement INSERT that the store refuses: the commit that
\* carries the row fails and is rolled back, the commits before it stand.
RunEmitFails(db, plan, u, s, b, t) ==
    IF plan.ws.ann # {} THEN [db |-> db, out |-> "StoreError", ann |-> {}]
    ELSE IF IsEmptyWS(plan.ws) \/ plan.then = "" THEN Run(db, plan, u, s, b, t)
    ELSE LET f == Flush(db, plan.ws, t)
             p2 == Continuation(f.db, plan.then, u, s, b, t)
         IN IF ~f.ok THEN [db |-> db, out |-> "StoreError", ann |-> {}]
            ELSE IF p2.ws.ann # {} THEN [db |-> f.db, out |-> "StoreError", ann |-> {}]
            ELSE Run(db, plan, u, s, b, t)

\* ------------------------------------------------------------ the state
\* The scheduler between two sweeps (asyncio.sleep), after `errors` sweeps
\* that a store error ended.
Asleep(errors) == [pc |-> "sleep", todo |-> <<>>, t |-> 0, errors |-> errors]

\* Seats are created AVAILABLE with no hold; the modelled flight has an
\* economy seat (multiplier 1) and a business seat (multiplier 2).
InitRows ==
    /\ sec = 0
    /\ checkins = <<>>
    /\ gate = NoGate
    /\ terminal = 0
    /\ flight = "SCHEDULED"
    /\ seats = [s \in Seats |-> [status |-> "AVAILABLE", hold |-> NoTime,
                                  mult |-> IF s = 1 THEN 1 ELSE 2]]
    /\ bookings = <<>>
    /\ payments = <<>>
    /\ tickets = {}
    /\ fleet = [f \in OtherFlights |-> "SCHEDULED"]
    /\ sched = Asleep(0)

InitDB == now = 0 /\ InitRows

\* The server's clock is on UTC.
Init == InitDB /\ inflight = EmptyBag /\ zone = 0

SetDB(db) ==
    /\ flight' = db.flight
    /\ seats' = db.seats
    /\ bookings' = db.bookings
    /\ payments' = db.payments
    /\ tickets' = db.tickets

\* New booking ids stay within the modelled range.
IdsLeft(db) == Max(DOMAIN db.bookings) + 1 <= MaxBookingId

\* --------------------------------------- Spec: one request after another
Do(op, u, s, b, plan) ==
    LET r == Run(DB, plan, u, s, b, now)
    IN /\ SetDB(r.db)
       /\ UNCHANGED <<now, sec, checkins, inflight, fleet, sched, zone, gate, terminal>>

HoldSeat == \E u \in Users, s \in SeatIds : Do("hold_seat", u, s, 0, hold_seat(DB, s, now))

ReleaseSeat == \E u \in Users, s \in SeatIds : Do("release_seat", u, s, 0, release_seat(DB, u, s))

ListSeats == Do("get_flight_seats", 0, 0, 0, get_flight_seats(DB, now))

CreateBooking ==
    \E u \in Users, s \in SeatIds :
        /\ IdsLeft(DB)
        /\ Do("create_booking", u, s, 0, create_booking(DB, u, s, now))

MyBookings == \E u \in Users : Do("get_my_bookings", u, 0, 0, get_my_bookings(DB, u, now))

CancelBooking ==
    \E u \in Users, b \in BookingArgs : Do("cancel_booking", u, 0, b, cancel_booking(DB, u, b))

CancelBookingStaff ==
    \E b \in BookingArgs : Do("cancel_booking_staff", 0, 0, b, cancel_booking_staff(DB, b))

Pay ==
    \E u \in Users, b \in BookingArgs : Do("create_payment", u, 0, b, create_payment(DB, u, b, now))

ReassignSeat ==
    \E b \in BookingArgs, ns \in SeatIds : Do("reassign_seat", 0, ns, b, reassign_seat(DB, b, ns))

UpdateFlightStatus ==
    \E st \in FlightStatus : Do("update_flight_status", 0, 0, 0, update_flight_status(DB, st))

Tick ==
    /\ now + TickStep <= MaxTime
    /\ inflight = EmptyBag
    /\ now' = now + TickStep
    /\ UNCHANGED <<sec, flight, seats, bookings, payments, tickets, checkins, inflight, fleet, sched, zone, gate, terminal>>

Next ==
    \/ HoldSeat
    \/ ReleaseSeat
    \/ ListSeats
    \/ CreateBooking
    \/ MyBookings
    \/ CancelBooking
    \/ CancelBookingStaff
    \/ Pay
    \/ ReassignSeat
    \/ UpdateFlightStatus
    \/ Tick

Spec == Init /\ [][Next]_vars

\* ------------------------------------ SpecConc: requests that interleave
\* Up to NumProcs requests are in flight at once.  The window is short: the
\* clock does not advance in it.  Passengers contend for the seats of
\* ContendedSeats; the other seats are reached by staff reassignment.
ContendedSeats == {1}

\* A request that has read and not yet committed.  Requests that fail or
\* end at their read change nothing and are not recorded.
Request(op, u, s, b, plan) ==
    [op |-> op, user |-> u, seat |-> s, bk |-> b, pc |-> "commit",
     ws |-> plan.ws, out |-> plan.out, then |-> plan.then]

Launch(op, u, s, b, plan) ==
    /\ BagCardinality(inflight) < NumProcs
    /\ ~IsEmptyWS(plan.ws)
    /\ inflight' = inflight (+) SetToBag({Request(op, u, s, b, plan)})
    /\ UNCHANGED <<now, sec, flight, seats, bookings, payments, tickets, checkins, fleet, sched, zone, gate, terminal>>

\* Of its arguments a request in flight records those its later steps use.
StartHoldSeat == \E s \in ContendedSeats : Launch("hold_seat", 0, 0, 0, hold_seat(DB, s, now))

StartReleaseSeat == \E u \in Users, s \in ContendedSeats : Launch("release_seat", 0, 0, 0, release_seat(DB, u, s))

StartListSeats == Launch("get_flight_seats", 0, 0, 0, get_flight_seats(DB, now))

StartCreateBooking ==
    \E u \in Users, s \in ContendedSeats : Launch("create_booking", u, s, 0, create_booking(DB, u, s, now))

StartCancelBooking ==
    \E u \in Users, b \in BookingIds : Launch("cancel_booking", 0, 0, 0, cancel_booking(DB, u, b))

StartCancelBookingStaff ==
    \E b \in BookingIds : Launch("cancel_booking_staff", 0, 0, 0, cancel_booking_staff(DB, b))

StartPay ==
    \E u \in Users, b \in BookingIds : Launch("create_payment", 0, 0, b, create_payment(DB, u, b, now))

StartReassignSeat ==
    \E b \in BookingIds, ns \in Seats : Launch("reassign_seat", 0, 0, 0, reassign_seat(DB, b, ns))

\* The request after its commit: ended with its response, ended by a store
\* error, or about to read again.
AfterCommit(r, ok) ==
    IF ~ok THEN [r EXCEPT !.pc = "done", !.ws = EmptyWS, !.out = "StoreError", !.then = ""]
    ELSE IF r.then = "" THEN [r EXCEPT !.pc = "done", !.ws = EmptyWS]
    ELSE [r EXCEPT !.pc = "continue", !.ws = EmptyWS]

\* The request after the read that follows a commit.
AfterContinue(db, r, t) ==
    LET p2 == Continuation(db, r.then, r.user, r.seat, r.bk, t)
    IN IF IsEmptyWS(p2.ws) THEN [r EXCEPT !.pc = "done", !.out = p2.out, !.then = ""]
       ELSE [r EXCEPT !.pc = "commit", !.ws = p2.ws, !.out = p2.out, !.then = ""]

\* The bag with request r replaced by what it became; an ended request is
\* kept only when its response is observed (keep).
Replace(r, r2, keep) ==
    IF r2.pc = "done" /\ ~keep THEN inflight (-) SetToBag({r})
    ELSE (inflight (-) SetToBag({r})) (+) SetToBag({r2})

CommitStep(r, keep) ==
    LET f == Flush(DB, r.ws, now)
    IN /\ r.pc = "commit"
       /\ r.ws.ins # {} => IdsLeft(DB)
       /\ SetDB(f.db)
       /\ inflight' = Replace(r, AfterCommit(r, f.ok), keep)
       /\ UNCHANGED <<now, sec, checkins, fleet, sched, zone, gate, terminal>>

ContinueStep(r, keep) ==
    /\ r.pc = "continue"
    /\ inflight' = Replace(r, AfterContinue(DB, r, now), keep)
    /\ UNCHANGED <<now, sec, flight, seats, bookings, payments, tickets, checkins, fleet, sched, zone, gate, terminal>>

Commit == \E r \in BagToSet(inflight) : CommitStep(r, FALSE)

Continue == \E r \in BagToSet(inflight) : ContinueStep(r, FALSE)

NextConc ==
    \/ StartHoldSeat
    \/ StartReleaseSeat
    \/ StartListSeats
    \/ StartCreateBooking
    \/ StartCancelBooking
    \/ StartCancelBookingStaff
    \/ StartPay
    \/ StartReassignSeat
    \/ Commit
    \/ Continue

SpecConc == Init /\ [][NextConc]_vars

\* ----------------------- SpecRace: createBooking calls racing for a seat
\* n >= 2 passengers, each with one createBooking call for the same seat,
\* which is AVAILABLE and has no booking.  Each call reads, then commits, in
\* any interleaving; an ended call keeps its response.
Racer(u, s) ==
    [op |-> "create_booking", user |-> u, seat |-> s, bk |-> 0, pc |-> "start",
     ws |-> EmptyWS, out |-> "-", then |-> ""]

InitRace ==
    /\ InitDB
    /\ zone = 0
    /\ \E n \in 2..NumRacers, s \in Seats :
          inflight = SetToBag({Racer(u, s) : u \in 1..n})

\* The racer after its read.
AfterRead(r, plan) ==
    IF IsEmptyWS(plan.ws) THEN [r EXCEPT !.pc = "done", !.out = plan.out]
    ELSE [r EXCEPT !.pc = "commit", !.ws = plan.ws, !.out = plan.out, !.then = plan.then]

RaceRead ==
    \E r \in BagToSet(inflight) :
        /\ r.pc = "start"
        /\ inflight' = Replace(r, AfterRead(r, create_booking(DB, r.user, r.seat, now)), TRUE)
        /\ UNCHANGED <<now, sec, flight, seats, bookings, payments, tickets, checkins, fleet, sched, zone, gate, terminal>>

RaceCommit == \E r \in BagToSet(inflight) : CommitStep(r, TRUE)

NextRace == RaceRead \/ RaceCommit

SpecRace == InitRace /\ [][NextRace]_vars

\* ------------------------------ SpecCheckIn: around the check-in window
\* total_seconds() / 3600
HourSeconds == 3600
\* check-in opens 24 hours and closes 1 hour before departure
WindowOpensHours == 24
WindowClosesHours == 1
\* the "timezone correction": a raw time to departure above 24 and below
\* CorrectionBelowHours hours is reduced by the first of TimezoneOffsets
\* that brings it into the window
CorrectionBelowHours == 30
TimezoneOffsets == <<6, 5, 7, 4, 8>>

\* flight.departure_time of the modelled flight, on the clock of `now`
DepartureTime == 30 * 60

\* time_diff.total_seconds(): the seconds from the wall clock to departure
SecondsLeft == (DepartureTime - now) * 60 - sec

InWindow(left) ==
    WindowClosesHours * HourSeconds < left /\ left <= WindowOpensHours * HourSeconds

\* hours_until_departure after the correction, in seconds
CorrectedLeft(left) ==
    IF left > WindowOpensHours * HourSeconds /\ left < CorrectionBelowHours * HourSeconds
    THEN LET fits == {i \in 1..Len(TimezoneOffsets) :
                        InWindow(left - TimezoneOffsets[i] * HourSeconds)}
         IN IF fits = {} THEN left
            ELSE left - TimezoneOffsets[CHOOSE i \in fits : \A j \in fits : i <= j] * HourSeconds
    ELSE left

\* check_in: POST /check-in, run to its end on db and the CheckIn rows cks,
\* `left` seconds before departure.  A PENDING or FAILED payment is promoted
\* and committed, with its ticket, before the window is tested.  The new
\* CheckIn row takes the flight's gate fgate or, the flight having none, the
\* random gate rnd.
check_in(db, cks, u, b, left, fgate, rnd) ==
    IF b \notin DOMAIN db.bookings THEN [db |-> db, cks |-> cks, out |-> "NotFound"]
    ELSE IF db.bookings[b].user # u THEN [db |-> db, cks |-> cks, out |-> "NotAuthorized"]
    ELSE IF b \notin DOMAIN db.payments THEN [db |-> db, cks |-> cks, out |-> "PaymentRequired"]
    ELSE LET db1 == IF db.payments[b].status = "PAID" THEN db
                    ELSE [db EXCEPT !.payments[b].status = "PAID", !.tickets = @ \cup {b}]
             hours == CorrectedLeft(left)
         IN IF hours <= WindowClosesHours * HourSeconds
            THEN [db |-> db1, cks |-> cks, out |-> "CheckInClosed"]
            ELSE IF hours > WindowOpensHours * HourSeconds
            THEN [db |-> db1, cks |-> cks, out |-> "CheckInNotOpen"]
            ELSE IF b \in DOMAIN cks THEN [db |-> db1, cks |-> cks, out |-> "OK"]
            ELSE [db |-> db1, out |-> "OK",
                  cks |-> cks @@ (b :> IF fgate # NoGate THEN WithPrefix(fgate)
                                       ELSE [pre |-> TRUE, id |-> rnd])]

\* The instants of the wall clock, <<minute, second>>: 30 h, 25 h, 24 h 1 s,
\* 24 h, 12 h, 1 h 1 s, 1 h and 0 h before departure.
CheckInInstants ==
    << <<DepartureTime - 30 * 60, 0>>, <<DepartureTime - 25 * 60, 0>>,
       <<DepartureTime - 24 * 60 - 1, 59>>, <<DepartureTime - 24 * 60, 0>>,
       <<DepartureTime - 12 * 60, 0>>, <<DepartureTime - 61, 59>>,
       <<DepartureTime - 60, 0>>, <<DepartureTime, 0>> >>

CheckIn ==
    \E u \in Users, b \in BookingArgs, rnd \in 1..NumGates :
        LET r == check_in(DB, checkins, u, b, SecondsLeft, gate, rnd)
        IN /\ SetDB(r.db)
           /\ checkins' = r.cks
           /\ UNCHANGED <<now, sec, inflight, fleet, sched, zone, gate, terminal>>

\* The wall clock reaches the next instant.
Advance ==
    \E i \in 1..(Len(CheckInInstants) - 1) :
        /\ <<now, sec>> = CheckInInstants[i]
        /\ now' = CheckInInstants[i + 1][1]
        /\ sec' = CheckInInstants[i + 1][2]
        /\ UNCHANGED <<flight, seats, bookings, payments, tickets, checkins, inflight, fleet, sched, zone, gate, terminal>>

\* Bookings are made, paid and cancelled on the minute.
NextCheckIn ==
    \/ sec = 0 /\ CreateBooking
    \/ sec = 0 /\ Pay
    \/ sec = 0 /\ CancelBooking
    \/ CheckIn
    \/ Advance

SpecCheckIn == Init /\ [][NextCheckIn]_vars

\* ------------------------------- SpecPrice: seat prices edited by staff
\* The price multipliers staff set: 1..MaxMult; 0 is a request without one.
MultArgs == 0..MaxMult

UpdateSeat ==
    \E s \in SeatIds, mult \in MultArgs : Do("update_seat", 0, s, 0, update_seat(DB, s, mult))

\* Seats are held and bookings are made, paid, cancelled and moved on a
\* flight that stays SCHEDULED, while staff edit the seats' price multipliers.
NextPrice ==
    \/ UpdateSeat
    \/ HoldSeat
    \/ CreateBooking
    \/ CancelBooking
    \/ CancelBookingStaff
    \/ Pay
    \/ ReassignSeat
    \/ Tick

SpecPrice == Init /\ [][NextPrice]_vars

\* --------------------------- SpecSched: the flight status scheduler
\* Flight times are stored as naive UTC (create_flight, seed.py).  Flight 1
\* departs at DepartureTime, each further flight two hours after the one
\* before it; a flight takes an hour and a half.
Departs(f) == DepartureTime + (f - 1) * 120

Arrives(f) == Departs(f) + 90

\* datetime.now() is the server's local time: UTC, or UTC+5.
LocalOffsets == {0, 300}

LocalNow == now + zone

\* Flight.status of every flight.
AllStatus == [f \in Flights |-> IF f = 1 THEN flight ELSE fleet[f]]

\* The flights that have a CONFIRMED booking.
ConfirmedFlights == IF HasConfirmed(DB) THEN {1} ELSE {}

\* The rows of a query, in the order of their ids.
RECURSIVE InIdOrder(_)
InIdOrder(S) ==
    IF S = {} THEN <<>>
    ELSE LET f == CHOOSE f \in S : \A g \in S : f <= g
         IN <<f>> \o InIdOrder(S \ {f})

\* The selection as the comment above it words it: "status is SCHEDULED or
\* BOARDING".
flights_to_depart_not_delayed(st, t) ==
    InIdOrder({f \in Flights : Departs(f) <= t /\ st[f] \in {"SCHEDULED", "BOARDING"}})

flights_to_depart(st, t) ==
    InIdOrder({f \in Flights : Departs(f) <= t /\ st[f] \in {"SCHEDULED", "BOARDING", "DELAYED"}})

flights_to_arrive(st, t) ==
    InIdOrder({f \in Flights : Arrives(f) <= t /\ st[f] = "DEPARTED"})

StatusAnnouncement(f) == [flight |-> f, type |-> "GENERAL", user |-> 0]

\* One step of auto_update_flight_statuses with no store error, on the
\* flights' statuses st, the flights conf that have a CONFIRMED booking and
\* the task's position sc, at local time `local`: the new statuses, the new
\* position and the announcements the step commits.  The steps are the
\* queries and the commits of the sweep:
\*   sleep             read the time, select the flights to depart
\*   depart            commit DEPARTED for the first selected flight, or, none
\*                     being left, select the flights to arrive
\*   depart_announce   look for its CONFIRMED bookings, commit an announcement
\*   arrive, arrive_announce   the same for ARRIVED; none being left, sleep
auto_update_flight_statuses(st, conf, sc, local) ==
    LET f == Head(sc.todo)
        announced == IF f \in conf THEN {StatusAnnouncement(f)} ELSE {}
    IN IF sc.pc = "sleep"
       THEN [st |-> st, ann |-> {},
             sc |-> [sc EXCEPT !.pc = "depart", !.t = local, !.todo = flights_to_depart(st, local)]]
       ELSE IF sc.pc = "depart" /\ sc.todo = <<>>
       THEN [st |-> st, ann |-> {},
             sc |-> [sc EXCEPT !.pc = "arrive", !.todo = flights_to_arrive(st, sc.t)]]
       ELSE IF sc.pc = "depart"
       THEN [st |-> [st EXCEPT ![f] = "DEPARTED"], ann |-> {},
             sc |-> [sc EXCEPT !.pc = "depart_announce"]]
       ELSE IF sc.pc = "depart_announce"
       THEN [st |-> st, ann |-> announced,
             sc |-> [sc EXCEPT !.pc = "depart", !.todo = Tail(sc.todo)]]
       ELSE IF sc.pc = "arrive" /\ sc.todo = <<>>
       THEN [st |-> st, ann |-> {}, sc |-> Asleep(sc.errors)]
       ELSE IF sc.pc = "arrive"
       THEN [st |-> [st EXCEPT ![f] = "ARRIVED"], ann |-> {},
             sc |-> [sc EXCEPT !.pc = "arrive_announce"]]
       ELSE [st |-> st, ann |-> announced,
             sc |-> [sc EXCEPT !.pc = "arrive", !.todo = Tail(sc.todo)]]

\* Whether the next step of the sweep is a commit that writes.
Commits(st, conf, sc) ==
    /\ sc.todo # <<>>
    /\ \/ sc.pc = "depart" /\ st[Head(sc.todo)] # "DEPARTED"
       \/ sc.pc = "arrive" /\ st[Head(sc.todo)] # "ARRIVED"
       \/ sc.pc \in {"depart_announce", "arrive_announce"} /\ Head(sc.todo) \in conf

\* A sweep run from the step at position sc to its end with no store error
\* and nothing in between: the statuses it leaves, and, added to log, the
\* transitions it made (moved) and the announcements it committed (ann), in
\* their order.
RECURSIVE SweepRun(_, _, _, _, _)
SweepRun(st, conf, sc, local, log) ==
    LET r == auto_update_flight_statuses(st, conf, sc, local)
        changed == {f \in Flights : r.st[f] # st[f]}
        log2 == [moved |-> log.moved \o InIdOrder(changed),
                 ann |-> log.ann \o (IF r.ann = {} THEN <<>> ELSE <<CHOOSE a \in r.ann : TRUE>>)]
    IN IF r.sc.pc = "sleep" THEN [st |-> r.st, moved |-> log2.moved, ann |-> log2.ann]
       ELSE SweepRun(r.st, conf, r.sc, local, log2)

SetStatuses(st) ==
    /\ flight' = st[1]
    /\ fleet' = [f \in OtherFlights |-> st[f]]

\* A step of the sweep; a task that was cancelled takes none.
Sweep ==
    LET r == auto_update_flight_statuses(AllStatus, ConfirmedFlights, sched, LocalNow)
    IN /\ sched.pc \notin {"cancelling", "cancelled"}
       /\ SetStatuses(r.st)
       /\ sched' = r.sc
       /\ UNCHANGED <<now, sec, seats, bookings, payments, tickets, checkins, inflight, zone, gate, terminal>>

\* A commit of the sweep raises: the session is closed, the error is printed
\* and the task sleeps until the next sweep.
SweepError ==
    /\ Commits(AllStatus, ConfirmedFlights, sched)
    /\ sched.errors < MaxErrors
    /\ sched' = Asleep(sched.errors + 1)
    /\ UNCHANGED <<now, sec, flight, seats, bookings, payments, tickets, checkins, inflight,
                   fleet, zone, gate, terminal>>

\* The instants of the wall clock (UTC, minutes): the booking day, 5 hours
\* before the departure of flight 1, its departure and arrival, the
\* departure and arrival of flight 2.
SchedInstants ==
    <<0, Departs(1) - 300, Departs(1), Arrives(1), Departs(2), Arrives(2)>>

Pass ==
    \E i \in 1..(Len(SchedInstants) - 1) :
        /\ now = SchedInstants[i]
        /\ now' = SchedInstants[i + 1]
        /\ UNCHANGED <<sec, flight, seats, bookings, payments, tickets, checkins, inflight,
                       fleet, sched, zone, gate, terminal>>

InitSched == InitDB /\ inflight = EmptyBag /\ zone \in LocalOffsets

\* Bookings are made and paid on the booking day; staff set the status of
\* flight 1 at any time.
NextSched ==
    \/ Sweep
    \/ SweepError
    \/ Pass
    \/ UpdateFlightStatus
    \/ now = 0 /\ CreateBooking
    \/ now = 0 /\ Pay

SpecSched == InitSched /\ [][NextSched]_vars

\* The scheduler task is never starved and an error does not end it: it
\* sleeps a minute and sweeps again, for ever.  Staff set the status of
\* flight 1 on the booking day only.
NextSchedFair ==
    \/ Sweep
    \/ SweepError
    \/ Pass
    \/ now = 0 /\ UpdateFlightStatus
    \/ now = 0 /\ CreateBooking
    \/ now = 0 /\ Pay

SpecSchedFair == InitSched /\ [][NextSchedFair]_vars /\ WF_vars(Sweep)

\* ------------------------------- SpecList: a seat listing step by step
\* get_flight_seats loads the seats of the flight (query(Seat).all()), then,
\* seat by seat, looks for a CREATED booking of each HELD seat, and commits
\* at its end.  The bookings are read when the seats are already in the
\* session; bookings and payments run between the steps of one listing.
ListSeatsReads ==
    /\ inflight = EmptyBag
    /\ inflight' = SetToBag({[op |-> "get_flight_seats", pc |-> "bookings", seats |-> seats]})
    /\ UNCHANGED <<now, sec, flight, seats, bookings, payments, tickets, checkins, fleet, sched,
                   zone, gate, terminal>>

\* The listing with the seats as loaded and the bookings as they are now.
ListSeatsDecides ==
    \E q \in BagToSet(inflight) :
        LET plan == get_flight_seats([DB EXCEPT !.seats = q.seats], now)
        IN /\ q.pc = "bookings"
           /\ inflight' = IF IsEmptyWS(plan.ws) THEN EmptyBag
                          ELSE SetToBag({Request("get_flight_seats", 0, 0, 0, plan)})
           /\ UNCHANGED <<now, sec, flight, seats, bookings, payments, tickets, checkins, fleet,
                          sched, zone, gate, terminal>>

NextList ==
    \/ HoldSeat
    \/ CreateBooking
    \/ Pay
    \/ ListSeatsReads
    \/ ListSeatsDecides
    \/ Commit

SpecList == Init /\ [][NextList]_vars

\* ------------------------------- SpecShutdown: the server stops
\* task.cancel(): the task is marked, CancelledError is thrown into it when
\* the event loop resumes it.
cancel(sc) == [sc EXCEPT !.pc = "cancelling"]

\* The task resumed at await asyncio.sleep(60) with the error swallowed: it
\* goes on sleeping and sweeping.
resume_swallowed(sc) == Asleep(sc.errors)

\* The task resumed at await asyncio.sleep(60), outside its try blocks:
\* CancelledError leaves the loop and ends the task.
resume_cancelled(sc) == [sc EXCEPT !.pc = "cancelled"]

\* The shutdown half of lifespan runs on the event loop, hence while the task
\* is suspended at its only await, the sleep between two sweeps.
Shutdown ==
    /\ sched.pc = "sleep"
    /\ sched' = cancel(sched)
    /\ UNCHANGED <<now, sec, flight, seats, bookings, payments, tickets, checkins, inflight,
                   fleet, zone, gate, terminal>>

\* The event loop resumes the cancelled task; await task in lifespan returns.
TaskEnds ==
    /\ sched.pc = "cancelling"
    /\ sched' = resume_cancelled(sched)
    /\ UNCHANGED <<now, sec, flight, seats, bookings, payments, tickets, checkins, inflight,
                   fleet, zone, gate, terminal>>

NextShutdown ==
    \/ Sweep
    \/ SweepError
    \/ Pass
    \/ UpdateFlightStatus
    \/ now = 0 /\ CreateBooking
    \/ now = 0 /\ Pay
    \/ Shutdown
    \/ TaskEnds

\* The event loop keeps running until the task it was asked to cancel ended.
SpecShutdown == InitSched /\ [][NextShutdown]_vars /\ WF_vars(TaskEnds)

\* ------------------------------------------------------------ the claims
Active(status) == status \in {"CREATED", "CONFIRMED"}

ActiveBookingsOfSeat(s) == {b \in BookingsOfSeat(DB, s) : Active(bookings[b].status)}

InFlight == BagToSet(inflight)

\* C1: in every state reached by interleaved holdSeat, releaseSeatHold,
\* listSeatsForFlight, createBooking, pay, cancelBooking,
\* cancelBookingAsStaff and reassignSeat requests, each seat is referenced
\* by at most one booking whose status is CREATED or CONFIRMED.
C1_OneActiveBookingPerSeat ==
    \A s \in Seats : Cardinality(ActiveBookingsOfSeat(s)) <= 1

\* A request is about to insert a booking for a seat that an active booking
\* already references: its read saw the seat free, the store decides.
C1_Witness ==
    \E r \in InFlight :
        /\ r.pc = "commit"
        /\ \E n \in r.ws.ins : ActiveBookingsOfSeat(n.seat) # {}

\* C2: when the createBooking calls of n >= 2 distinct users on one free
\* seat have all ended, whatever the interleaving of their reads and
\* commits, exactly one of them succeeded and exactly one CREATED booking
\* references the seat.
RaceOver == \A r \in InFlight : r.pc = "done"

C2_ExactlyOneWinner ==
    RaceOver =>
        /\ Cardinality({r \in InFlight : r.out = "OK"}) = 1
        /\ \A r \in InFlight :
              Cardinality({b \in BookingsOfSeat(DB, r.seat) : bookings[b].status = "CREATED"}) = 1

\* The race is over and one call lost it at its commit: it had read the
\* seat as free before the winner committed.
C2_Witness ==
    /\ RaceOver
    /\ \E r \in InFlight : r.out = "StoreError"
    /\ \E r \in InFlight : r.out = "OK"

\* C3: every call that loses the race ends with a seat-conflict error
\* (SeatTaken / SeatHeldByOther), never with a store failure, and leaves no
\* booking of its own.
C3_LosersGetConflict ==
    \A r \in InFlight :
        (r.pc = "done" /\ r.out # "OK") =>
            /\ r.out \in {"SeatTaken", "SeatHeldByOther"}
            /\ ~\E b \in DOMAIN bookings : bookings[b].user = r.user

\* The databases one request can lead to from db, createBooking aside (it
\* deletes and inserts bookings, and changes the status of none).
StepsOf(db, t) ==
    {Run(db, hold_seat(db, s, t), 0, s, 0, t).db : s \in Seats}
    \cup {Run(db, release_seat(db, u, s), u, s, 0, t).db : u \in Users, s \in Seats}
    \cup {Run(db, get_flight_seats(db, t), 0, 0, 0, t).db}
    \cup {Run(db, get_my_bookings(db, u, t), u, 0, 0, t).db : u \in Users}
    \cup {Run(db, cancel_booking(db, u, b), u, 0, b, t).db : u \in Users, b \in BookingIds}
    \cup {Run(db, cancel_booking_staff(db, b), 0, 0, b, t).db : b \in BookingIds}
    \cup {Run(db, create_payment(db, u, b, t), u, 0, b, t).db : u \in Users, b \in BookingIds}
    \cup {Run(db, reassign_seat(db, b, s), 0, s, b, t).db : b \in BookingIds, s \in Seats}
    \cup {Run(db, update_flight_status(db, st), 0, 0, 0, t).db : st \in FlightStatus}

StatusMayBecome(old, new) ==
    \/ new = old
    \/ old = "CREATED" /\ new \in {"CONFIRMED", "CANCELLED"}
    \/ old = "CONFIRMED" /\ new = "CANCELLED"

\* C4: whatever request runs next, a booking's status stays or moves along
\* CREATED->CONFIRMED, CREATED->CANCELLED, CONFIRMED->CANCELLED; a CANCELLED
\* booking stays CANCELLED and the request does not make its seat BOOKED.
C4_StatusMachine ==
    \A d \in StepsOf(DB, now) :
        \A b \in DOMAIN bookings :
            /\ b \in DOMAIN d.bookings
            /\ StatusMayBecome(bookings[b].status, d.bookings[b].status)
            /\ bookings[b].status = "CANCELLED" =>
                  \/ d.seats[bookings[b].seat].status # "BOOKED"
                  \/ seats[bookings[b].seat].status = "BOOKED"

\* pay by u on b, with the transaction id of the Payment it returns.
RunPay(db, u, b, t) ==
    LET r == Run(db, create_payment(db, u, b, t), u, 0, b, t)
    IN [db |-> r.db, out |-> r.out,
        txn |-> IF r.out = "OK" THEN r.db.payments[b].txn ELSE 0]

PaidAndCancelled(db, b) ==
    /\ db.bookings[b].status = "CANCELLED"
    /\ b \in DOMAIN db.payments
    /\ db.payments[b].status = "PAID"

Paid(pays, b) == b \in DOMAIN pays /\ pays[b].status = "PAID"

C6_PaymentAtomic ==
    [][/\ \A b \in DOMAIN bookings' : Paid(payments', b) => bookings'[b].status # "CREATED"
       /\ \A b \in BookingIds :
             (Paid(payments', b) /\ ~Paid(payments, b)) =>
                 /\ b \in DOMAIN bookings'
                 /\ bookings'[b].status = "CONFIRMED"
                 /\ seats'[bookings'[b].seat].status = "BOOKED"
                 /\ seats'[bookings'[b].seat].hold = NoTime]_vars

\* C7: in every state a booking whose Payment is PAID has its Ticket.
C7_PaidHasTicket ==
    \A b \in DOMAIN payments : payments[b].status = "PAID" => b \in tickets

\* C8: pay by the owner of a CREATED booking more than 10 minutes after its
\* creation fails with BookingExpired, creates no Payment and no Ticket and
\* leaves the booking CANCELLED and its seat AVAILABLE with no hold expiry;
\* at or before creation + 10 minutes pay does not fail with BookingExpired.
C8_PayAfterGrace ==
    \A b \in DOMAIN bookings :
        LET bk == bookings[b]
            r == RunPay(DB, bk.user, b, now)
        IN bk.status = "CREATED" =>
              IF now > bk.created + HoldMinutes
              THEN /\ r.out = "BookingExpired"
                   /\ r.db.payments = payments
                   /\ r.db.tickets = tickets
                   /\ r.db.bookings[b].status = "CANCELLED"
                   /\ r.db.seats[bk.seat].status = "AVAILABLE"
                   /\ r.db.seats[bk.seat].hold = NoTime
              ELSE r.out # "BookingExpired"

\* A CREATED booking past its grace period whose seat is still HELD: pay
\* cancels it and releases the seat.
C8_Witness ==
    \E b \in DOMAIN bookings :
        /\ bookings[b].status = "CREATED"
        /\ now > bookings[b].created + HoldMinutes
        /\ seats[bookings[b].seat].status = "HELD"
        /\ RunPay(DB, bookings[b].user, b, now).out = "BookingExpired"

\* The booking of seat s by u after the request that leads to d.
BooksAfter(d, u, s, t) == Run(d, create_booking(d, u, s, t), u, s, 0, t).out = "OK"

\* C9: once a CREATED booking is unpaid and older than 10 minutes, after
\* the first request that observes it (the seat listing, the owner's
\* booking list, the owner's pay) another user's createBooking on its seat
\* succeeds, and so does that createBooking as the first observer.
C9_ExpiredBookingFreesSeat ==
    \A b \in DOMAIN bookings :
        LET bk == bookings[b]
        IN (bk.status = "CREATED" /\ b \notin DOMAIN payments
            /\ now > bk.created + HoldMinutes /\ flight = "SCHEDULED") =>
              \A u \in Users \ {bk.user} :
                  /\ BooksAfter(Run(DB, get_flight_seats(DB, now), 0, 0, 0, now).db, u, bk.seat, now)
                  /\ BooksAfter(Run(DB, get_my_bookings(DB, bk.user, now), bk.user, 0, 0, now).db,
                                u, bk.seat, now)
                  /\ BooksAfter(RunPay(DB, bk.user, b, now).db, u, bk.seat, now)
                  /\ BooksAfter(DB, u, bk.seat, now)

\* C10: holdSeat succeeds exactly when the seat is AVAILABLE, or HELD with
\* a hold expiry in the past and no CREATED or CONFIRMED booking on it; on
\* success the seat is HELD until now + 10 minutes; otherwise it fails with
\* SeatUnavailable and the seat is unchanged.
C10_HoldSeat ==
    \A s \in Seats :
        LET r == Run(DB, hold_seat(DB, s, now), 0, s, 0, now)
            free == \/ seats[s].status = "AVAILABLE"
                    \/ /\ seats[s].status = "HELD"
                       /\ Expired(seats[s].hold, now)
                       /\ ActiveBookingsOfSeat(s) = {}
        IN IF free
           THEN /\ r.out = "OK"
                /\ r.db.seats[s].status = "HELD"
                /\ r.db.seats[s].hold = now + HoldMinutes
           ELSE /\ r.out = "SeatUnavailable"
                /\ r.db.seats[s] = seats[s]

\* C11: releaseSeatHold by any user on a HELD seat that a CREATED or
\* CONFIRMED booking of any user references fails with ConflictingBooking
\* and changes nothing; with no such booking it leaves the seat AVAILABLE
\* with no hold expiry.
C11_ReleaseRespectsBookings ==
    \A u \in Users, s \in Seats :
        LET r == Run(DB, release_seat(DB, u, s), u, s, 0, now)
        IN seats[s].status = "HELD" =>
              IF ActiveBookingsOfSeat(s) # {}
              THEN r.out = "ConflictingBooking" /\ r.db = DB
              ELSE /\ r.out = "OK"
                   /\ r.db.seats[s].status = "AVAILABLE"
                   /\ r.db.seats[s].hold = NoTime

\* The seat listing at time t on db: what it reports and what it stores.
Listing(db, t) ==
    [view |-> get_flight_seats(db, t).view,
     db |-> Run(db, get_flight_seats(db, t), 0, 0, 0, t).db]

\* C12: the seat listing reports no seat as HELD whose hold expiry is in
\* the past; it reports such a seat AVAILABLE and stores it AVAILABLE with no
\* expiry; a second listing right after reports the same and changes
\* nothing, and later listings still report that seat AVAILABLE, unchanged.
C12_ListingResolvesExpiredHolds ==
    LET l1 == Listing(DB, now)
        l2 == Listing(l1.db, now)
    IN /\ \A s \in Seats :
              (seats[s].status = "HELD" /\ Expired(seats[s].hold, now)) =>
                  /\ l1.view[s] = "AVAILABLE"
                  /\ l1.db.seats[s].status = "AVAILABLE"
                  /\ l1.db.seats[s].hold = NoTime
                  /\ \A t \in {now + TickStep, now + 2 * TickStep} :
                        /\ Listing(l1.db, t).view[s] = "AVAILABLE"
                        /\ Listing(l1.db, t).db.seats[s] = l1.db.seats[s]
       /\ \A s \in Seats : l1.view[s] = "HELD" => ~Expired(l1.db.seats[s].hold, now)
       /\ l2.view = l1.view
       /\ l2.db = l1.db

\* A seat is HELD past its hold expiry and the listing releases it.
C12_Witness ==
    \E s \in Seats :
        /\ seats[s].status = "HELD"
        /\ Expired(seats[s].hold, now)
        /\ Listing(DB, now).db.seats[s].status = "AVAILABLE"

\* C13: after a successful holdSeat the seat stays HELD with the same
\* expiry under every request that is not a release or a booking operation;
\* a seat listing before the expiry reports it HELD and does not modify it.
C13_HoldLasts ==
    \A s \in Seats :
        LET h == Run(DB, hold_seat(DB, s, now), 0, s, 0, now)
        IN h.out = "OK" =>
              /\ Listing(h.db, now).view[s] = "HELD"
              /\ Listing(h.db, now).db.seats[s] = h.db.seats[s]
              /\ \A u \in Users :
                    Run(h.db, get_my_bookings(h.db, u, now), u, 0, 0, now).db.seats[s] = h.db.seats[s]

Departed(status) == status \in {"DEPARTED", "ARRIVED"}

\* C17: while the flight's status is DEPARTED or ARRIVED, cancelBooking by
\* the owner and cancelBookingAsStaff fail with FlightDeparted and change
\* nothing.
C17_NoCancelAfterDeparture ==
    Departed(flight) =>
        \A b \in DOMAIN bookings :
            LET own == Run(DB, cancel_booking(DB, bookings[b].user, b), bookings[b].user, 0, b, now)
                staff == Run(DB, cancel_booking_staff(DB, b), 0, 0, b, now)
            IN /\ own.out = "FlightDeparted" /\ own.db = DB
               /\ staff.out = "FlightDeparted" /\ staff.db = DB

\* C18: cancelBooking by the owner of a CREATED or CONFIRMED booking, the
\* flight not being DEPARTED or ARRIVED, succeeds and changes exactly the
\* booking's status, to CANCELLED, and its seat, to AVAILABLE with no hold
\* expiry: payments, tickets, the flight and all other rows stay as they are.
C18_CancelFrame ==
    \A b \in DOMAIN bookings :
        LET bk == bookings[b]
            r == Run(DB, cancel_booking(DB, bk.user, b), bk.user, 0, b, now)
        IN (Active(bk.status) /\ ~Departed(flight)) =>
              /\ r.out = "OK"
              /\ r.db = [DB EXCEPT !.bookings[b].status = "CANCELLED",
                                   !.seats[bk.seat].status = "AVAILABLE",
                                   !.seats[bk.seat].hold = NoTime]

\* A paid booking on a flight that has not departed: its cancellation
\* leaves the PAID Payment and the Ticket behind.
C18_Witness ==
    \E b \in DOMAIN bookings :
        /\ bookings[b].status = "CONFIRMED"
        /\ ~Departed(flight)
        /\ Paid(payments, b) /\ b \in tickets
        /\ seats[bookings[b].seat].status = "BOOKED"
        /\ Run(DB, cancel_booking(DB, bookings[b].user, b), bookings[b].user, 0, b, now).out = "OK"

\* C19: cancelBookingAsStaff on a booking that is already CANCELLED fails
\* with NotCancellable and leaves the status and hold expiry of the
\* booking's seat as they are.
C19_StaffCancelOnlyActive ==
    \A b \in DOMAIN bookings :
        LET r == Run(DB, cancel_booking_staff(DB, b), 0, 0, b, now)
        IN (bookings[b].status = "CANCELLED" /\ ~Departed(flight)) =>
              /\ r.out = "NotCancellable"
              /\ r.db.seats[bookings[b].seat] = seats[bookings[b].seat]

\* C20: createBooking changes nothing and fails when the flight is
\* CANCELLED, DEPARTED or ARRIVED (FlightNotBookable) or the seat is not a
\* seat of the flight (NotFound); with the flight SCHEDULED, BOARDING or
\* DELAYED it does not fail with FlightNotBookable.
C20_BookableFlightAndSeat ==
    \A u \in Users, s \in SeatIds :
        LET r == Run(DB, create_booking(DB, u, s, now), u, s, 0, now)
        IN /\ flight \in {"CANCELLED", "DEPARTED", "ARRIVED"} =>
                 r.out = "FlightNotBookable" /\ r.db = DB
           /\ (flight \in {"SCHEDULED", "BOARDING", "DELAYED"} /\ s \notin Seats) =>
                 r.out = "NotFound" /\ r.db = DB
           /\ flight \in {"SCHEDULED", "BOARDING", "DELAYED"} => r.out # "FlightNotBookable"

\* The flight has ARRIVED and a seat of it is free of any booking: only the
\* flight's status stands in the way of a booking.
C20_Witness ==
    /\ flight = "ARRIVED"
    /\ \E s \in Seats : seats[s].status = "AVAILABLE" /\ BookingsOfSeat(DB, s) = {}

\* checkIn by the owner of booking b now.
OwnerCheckIn(b) == check_in(DB, checkins, bookings[b].user, b, SecondsLeft, gate, 1)

\* C14: checkIn by the owner of a paid booking is accepted exactly when
\* 1 hour < departure - now <= 24 hours.
C14_CheckInWindow ==
    \A b \in DOMAIN bookings :
        Paid(payments, b) => (OwnerCheckIn(b).out = "OK" <=> InWindow(SecondsLeft))

\* C15: checkIn by the owner of a booking that has a CheckIn record returns
\* it and creates none, whatever the time to departure.
C15_CheckInIdempotent ==
    \A b \in DOMAIN bookings :
        b \in DOMAIN checkins =>
            /\ OwnerCheckIn(b).out = "OK"
            /\ OwnerCheckIn(b).cks = checkins
            /\ OwnerCheckIn(b).db = DB

\* C16: checkIn creates a CheckIn record only for a booking that is
\* CONFIRMED with a PAID payment.
C16_CheckInOnlyConfirmed ==
    \A b \in DOMAIN bookings :
        b \in DOMAIN OwnerCheckIn(b).cks \ DOMAIN checkins =>
            /\ bookings[b].status = "CONFIRMED"
            /\ Paid(payments, b)

\* createBooking by u on seat s now.
Book(u, s) == Run(DB, create_booking(DB, u, s, now), u, s, 0, now)

Bookable(status) == status \in {"SCHEDULED", "BOARDING", "DELAYED"}

\* C21: createBooking on a seat of a bookable flight fails with
\* SeatAlreadyBooked when the seat is BOOKED; else, with a booking on the
\* seat, with DuplicatePendingBooking (the caller's, CREATED), AlreadyBooked
\* (the caller's, CONFIRMED), SeatHeldByOther or SeatTaken (another user's,
\* CREATED or CONFIRMED); a CANCELLED booking on the seat is deleted and the
\* call succeeds, the seat then being referenced by one booking, the new
\* CREATED one of the caller.  A rejection changes nothing.
C21_ConflictPriority ==
    \A u \in Users, s \in Seats :
        LET r == Book(u, s)
            Rejected(out) == r.out = out /\ r.db = DB
        IN Bookable(flight) =>
              IF seats[s].status = "BOOKED" THEN Rejected("SeatAlreadyBooked")
              ELSE \A b \in BookingsOfSeat(DB, s) :
                      LET own == bookings[b].user = u
                          st == bookings[b].status
                      IN /\ (own /\ st = "CREATED") => Rejected("DuplicatePendingBooking")
                         /\ (own /\ st = "CONFIRMED") => Rejected("AlreadyBooked")
                         /\ (~own /\ st = "CREATED") => Rejected("SeatHeldByOther")
                         /\ (~own /\ st = "CONFIRMED") => Rejected("SeatTaken")
                         /\ st = "CANCELLED" =>
                               /\ r.out = "OK"
                               /\ \E n \in DOMAIN r.db.bookings :
                                     /\ BookingsOfSeat(r.db, s) = {n}
                                     /\ r.db.bookings[n].status = "CREATED"
                                     /\ r.db.bookings[n].user = u
                                     /\ r.db.bookings[n].created = now

\* C22: a successful createBooking adds exactly one booking, CREATED, of
\* the caller on the seat, priced at the flight's base price times the
\* seat's price multiplier, and leaves the seat HELD until now + 10 minutes
\* whatever its hold expiry was; a CANCELLED booking on the seat aside, every
\* other row stays as it is.
C22_BookingCreated ==
    \A u \in Users, s \in Seats :
        LET r == Book(u, s)
        IN r.out = "OK" =>
              /\ \E n \in DOMAIN r.db.bookings :
                    /\ r.db.bookings[n] = [user |-> u, seat |-> s, status |-> "CREATED",
                                           created |-> now, price |-> BasePrice * seats[s].mult]
                    /\ BookingsOfSeat(r.db, s) = {n}
                    /\ \A b \in DOMAIN r.db.bookings \ {n} :
                          b \in DOMAIN bookings /\ r.db.bookings[b] = bookings[b]
              /\ \A b \in DOMAIN bookings : bookings[b].seat # s => b \in DOMAIN r.db.bookings
              /\ r.db.seats = [seats EXCEPT ![s].status = "HELD", ![s].hold = now + HoldMinutes]
              /\ r.db.payments = payments
              /\ r.db.tickets = tickets
              /\ r.db.flight = flight

\* A seat whose price multiplier staff have changed is HELD, with no
\* booking, until an instant that is not now + 10 minutes, and a passenger
\* books it.
C22_Witness ==
    \E u \in Users, s \in Seats :
        /\ seats[s].status = "HELD"
        /\ seats[s].hold \notin {NoTime, now + HoldMinutes}
        /\ seats[s].mult # (IF s = 1 THEN 1 ELSE 2)
        /\ Book(u, s).out = "OK"

\* updateSeat of seat s to price multiplier mult now.
EditSeat(s, mult) == Run(DB, update_seat(DB, s, mult), 0, s, 0, now)

\* The databases one request other than reassignSeat and createBooking can
\* lead to from the current one.
OtherSteps ==
    {Run(DB, hold_seat(DB, s, now), 0, s, 0, now).db : s \in Seats}
    \cup {Run(DB, release_seat(DB, u, s), u, s, 0, now).db : u \in Users, s \in Seats}
    \cup {Run(DB, get_flight_seats(DB, now), 0, 0, 0, now).db}
    \cup {Run(DB, get_my_bookings(DB, u, now), u, 0, 0, now).db : u \in Users}
    \cup {Run(DB, cancel_booking(DB, u, b), u, 0, b, now).db : u \in Users, b \in BookingIds}
    \cup {Run(DB, cancel_booking_staff(DB, b), 0, 0, b, now).db : b \in BookingIds}
    \cup {Run(DB, create_payment(DB, u, b, now), u, 0, b, now).db : u \in Users, b \in BookingIds}
    \cup {Run(DB, update_flight_status(DB, st), 0, 0, 0, now).db : st \in FlightStatus}
    \cup {check_in(DB, checkins, u, b, SecondsLeft, gate, 1).db : u \in Users, b \in BookingIds}
    \cup {EditSeat(s, mult).db : s \in Seats, mult \in MultArgs}

\* C23: updateSeat with a price multiplier sets the seat's multiplier and
\* changes no booking, those on that seat included; a request other than
\* reassignSeat leaves the total_price of every booking it does not delete
\* as it is.
C23_PriceFrozen ==
    /\ \A s \in Seats, mult \in 1..MaxMult :
          /\ EditSeat(s, mult).out = "OK"
          /\ EditSeat(s, mult).db.seats[s].mult = mult
          /\ EditSeat(s, mult).db.bookings = bookings
    /\ \A d \in OtherSteps :
          \A b \in DOMAIN bookings :
              b \in DOMAIN d.bookings /\ d.bookings[b].price = bookings[b].price
    /\ \A u \in Users, s \in Seats :
          \A b \in DOMAIN bookings :
              bookings[b].seat # s =>
                  /\ b \in DOMAIN Book(u, s).db.bookings
                  /\ Book(u, s).db.bookings[b].price = bookings[b].price

\* A seat with a CREATED or CONFIRMED booking on it, whose price multiplier
\* staff have edited since the booking was priced, and edit again.
C23_Witness ==
    \E b \in DOMAIN bookings, mult \in 1..MaxMult :
        /\ Active(bookings[b].status)
        /\ bookings[b].price # BasePrice * seats[bookings[b].seat].mult
        /\ mult # seats[bookings[b].seat].mult
        /\ EditSeat(bookings[b].seat, mult).db.seats[bookings[b].seat].mult = mult

\* reassignSeat of booking b to seat ns now.
Reassign(b, ns) == Run(DB, reassign_seat(DB, b, ns), 0, ns, b, now)

\* C24: on a flight that has not departed, reassignSeat of a booking to
\* another seat of the flight that no CREATED or CONFIRMED booking
\* references leaves the old seat AVAILABLE with no hold expiry, the new seat
\* BOOKED for a CONFIRMED booking and HELD for a CREATED one, the booking on
\* the new seat at base price times the new seat's multiplier, and inserts
\* one announcement, addressed to the booking's user; if a CREATED or
\* CONFIRMED booking references the new seat the call fails and changes
\* nothing.
C24_Reassign ==
    \A b \in DOMAIN bookings, ns \in Seats :
        LET bk == bookings[b]
            r == Reassign(b, ns)
        IN (ns # bk.seat /\ ~Departed(flight)) =>
              IF ActiveBookingsOfSeat(ns) # {}
              THEN r.out = "SeatTaken" /\ r.db = DB /\ r.ann = {}
              ELSE /\ r.out = "OK"
                   /\ r.db.seats[bk.seat].status = "AVAILABLE"
                   /\ r.db.seats[bk.seat].hold = NoTime
                   /\ bk.status = "CONFIRMED" => r.db.seats[ns].status = "BOOKED"
                   /\ bk.status = "CREATED" => r.db.seats[ns].status = "HELD"
                   /\ r.db.bookings[b].seat = ns
                   /\ r.db.bookings[b].price = BasePrice * seats[ns].mult
                   /\ r.ann = {[type |-> "GENERAL", user |-> bk.user]}

\* C25: on a flight that has not departed, reassignSeat to another seat
\* whose only booking is a CANCELLED one succeeds and moves the booking to
\* that seat: the check lets it through and the commit does not fail.
C25_ReassignOntoCancelled ==
    \A b \in DOMAIN bookings, ns \in Seats :
        (/\ ns # bookings[b].seat
         /\ ~Departed(flight)
         /\ BookingsOfSeat(DB, ns) # {}
         /\ ActiveBookingsOfSeat(ns) = {}) =>
            /\ reassign_seat(DB, b, ns).out = "OK"
            /\ ~IsEmptyWS(reassign_seat(DB, b, ns).ws)
            /\ Reassign(b, ns).out = "OK"
            /\ Reassign(b, ns).db.bookings[b].seat = ns

\* C26: a step of the scheduler changes the status of a flight only from
\* SCHEDULED, BOARDING or DELAYED to DEPARTED, its departure time being
\* reached, or from DEPARTED to ARRIVED, its arrival time being reached, and
\* changes no booking and no seat.
C26_SweepTransitions ==
    [][sched' # sched =>
          /\ \A f \in Flights :
                AllStatus'[f] # AllStatus[f] =>
                    \/ /\ AllStatus[f] \in {"SCHEDULED", "BOARDING", "DELAYED"}
                       /\ AllStatus'[f] = "DEPARTED"
                       /\ Departs(f) <= now
                    \/ /\ AllStatus[f] = "DEPARTED"
                       /\ AllStatus'[f] = "ARRIVED"
                       /\ Arrives(f) <= now
          /\ bookings' = bookings
          /\ seats' = seats]_vars

Due(f) == AllStatus[f] \in {"SCHEDULED", "BOARDING", "DELAYED"} /\ Departs(f) <= now

Landed(f) == AllStatus[f] = "DEPARTED" /\ Arrives(f) <= now

StaffSetsStatus(st) == Run(DB, update_flight_status(DB, st), 0, 0, 0, now)

\* The sweep that starts now, run to its end.
SweepNow == SweepRun(AllStatus, ConfirmedFlights, sched, LocalNow, [moved |-> <<>>, ann |-> <<>>])

Count(seq, f) == Cardinality({i \in 1..Len(seq) : seq[i] = f})

\* C28: a staff updateFlightStatus to a status other than the current one
\* commits it and inserts exactly one flight announcement if the flight has
\* a CONFIRMED booking, of type DELAY for DELAYED and CANCELLATION for
\* CANCELLED, and none otherwise; to the current status it inserts none.  A
\* sweep of the scheduler inserts, for each flight, one flight announcement
\* per transition it makes if the flight has a CONFIRMED booking, and none
\* otherwise.
C28_OneNotificationPerTransition ==
    /\ \A st \in FlightStatus :
          LET r == StaffSetsStatus(st)
          IN /\ r.out = "OK"
             /\ r.db.flight = st
             /\ IF st # flight /\ HasConfirmed(DB)
                THEN \E a \in r.ann :
                        /\ r.ann = {a}
                        /\ a.user = 0
                        /\ st = "DELAYED" => a.type = "DELAY"
                        /\ st = "CANCELLED" => a.type = "CANCELLATION"
                ELSE r.ann = {}
    /\ sched.pc = "sleep" =>
          \A f \in Flights :
              /\ Len(SweepNow.ann) =
                     Cardinality({i \in 1..Len(SweepNow.moved) : SweepNow.moved[i] \in ConfirmedFlights})
              /\ Count([i \in 1..Len(SweepNow.ann) |-> SweepNow.ann[i].flight], f) =
                     IF f \in ConfirmedFlights THEN Count(SweepNow.moved, f) ELSE 0
              /\ \A i \in 1..Len(SweepNow.ann) : SweepNow.ann[i].user = 0

\* The scheduler is about to sweep; flight 1, with a CONFIRMED booking, and
\* flight 2, with none, are both past their arrival times and have not
\* departed.
C28_Witness ==
    /\ sched.pc = "sleep"
    /\ HasConfirmed(DB)
    /\ \A f \in {1, 2} : AllStatus[f] \in {"SCHEDULED", "BOARDING", "DELAYED"} /\ Arrives(f) <= now
    /\ Len(SweepNow.moved) = 4
    /\ Len(SweepNow.ann) = 2

\* ------------------------------- SpecGate: gates, check-in and boarding passes
\* The gates and terminals staff send; NoGate and 0 are a request without one.
GateArgs == GateNames \cup {NoGate}
TerminalArgs == 0..NumTerminals

\* update_flight_gate: PATCH /flights/{id}/gate up to its first commit, on the
\* flight's gate fgate and terminal fterm.  check_ins tells whether the
\* CheckIn rows of the flight are rewritten next, ann is the announcement the
\* handler ends with.
update_flight_gate(db, fgate, fterm, g, t) ==
    [gate      |-> IF g # NoGate THEN g ELSE fgate,
     terminal  |-> IF t # 0 THEN t ELSE fterm,
     check_ins |-> g # NoGate /\ g # fgate,
     ann       |-> IF g # NoGate /\ g # fgate /\ HasConfirmed(db)
                   THEN {[type |-> "GATE_CHANGE", user |-> 0]} ELSE {}]

\* The second commit of update_flight_gate: every CheckIn row the query
\* returned takes the gate g with its prefix.
update_check_ins(cks, g) == [b \in DOMAIN cks |-> WithPrefix(g)]

\* get_boarding_pass: GET /boarding-pass/{booking_id}; profile tells whether
\* the caller has a PassengerProfile row.
get_boarding_pass(db, cks, fgate, fterm, u, b, profile) ==
    IF b \notin DOMAIN db.bookings THEN [out |-> "NotFound"]
    ELSE IF db.bookings[b].user # u THEN [out |-> "NotAuthorized"]
    ELSE IF b \notin DOMAIN cks THEN [out |-> "NotCheckedIn"]
    ELSE IF b \notin db.tickets THEN [out |-> "TicketNotFound"]
    ELSE IF ~profile THEN [out |-> "ProfileNotFound"]
    ELSE [out |-> "OK", boarding_gate |-> IF fgate # NoGate THEN fgate ELSE cks[b],
          terminal |-> fterm]

GateRequests(op) == {q \in BagToSet(inflight) : q.op = op}

\* check_in up to its INSERT: the request has read the booking, the payment,
\* the clock, the flight's gate and found no CheckIn row.
CheckInReads ==
    \E u \in Users, b \in BookingArgs, rnd \in 1..NumGates :
        LET r == check_in(DB, checkins, u, b, SecondsLeft, gate, rnd)
        IN /\ BagCardinality(inflight) < NumProcs
           /\ r.out = "OK"
           /\ b \notin DOMAIN checkins
           /\ SetDB(r.db)
           /\ inflight' = inflight (+) SetToBag({[op |-> "check_in", bk |-> b, gate |-> r.cks[b]]})
           /\ UNCHANGED <<now, sec, checkins, gate, terminal, fleet, sched, zone>>

\* The INSERT and commit of check_in; booking_id is unique, a second row for
\* the booking is refused.
CheckInCommits ==
    \E q \in GateRequests("check_in") :
        /\ checkins' = IF q.bk \in DOMAIN checkins THEN checkins
                       ELSE checkins @@ (q.bk :> q.gate)
        /\ inflight' = inflight (-) SetToBag({q})
        /\ UNCHANGED <<now, sec, flight, seats, bookings, payments, tickets, gate, terminal,
                       fleet, sched, zone>>

\* One staff request at a time edits the gate.
UpdateFlightGate ==
    \E g \in GateArgs, t \in TerminalArgs :
        LET r == update_flight_gate(DB, gate, terminal, g, t)
        IN /\ BagCardinality(inflight) < NumProcs
           /\ GateRequests("update_flight_gate") = {}
           /\ gate' = r.gate
           /\ terminal' = r.terminal
           /\ inflight' = IF r.check_ins
                          THEN inflight (+) SetToBag({[op |-> "update_flight_gate", bk |-> 0,
                                                       gate |-> g]})
                          ELSE inflight
           /\ UNCHANGED <<now, sec, flight, seats, bookings, payments, tickets, checkins,
                          fleet, sched, zone>>

UpdateCheckIns ==
    \E q \in GateRequests("update_flight_gate") :
        /\ checkins' = update_check_ins(checkins, q.gate)
        /\ inflight' = inflight (-) SetToBag({q})
        /\ UNCHANGED <<now, sec, flight, seats, bookings, payments, tickets, gate, terminal,
                       fleet, sched, zone>>

\* The clock stands 12 hours before departure, inside the check-in window.
InitGate ==
    /\ now = DepartureTime - 12 * 60
    /\ InitRows
    /\ inflight = EmptyBag
    /\ zone = 0

NextGate ==
    \/ inflight = EmptyBag /\ CreateBooking
    \/ inflight = EmptyBag /\ Pay
    \/ CheckInReads
    \/ CheckInCommits
    \/ UpdateFlightGate
    \/ UpdateCheckIns

SpecGate == InitGate /\ [][NextGate]_vars

\* C29: once a gate update and the check-ins that ran beside it have ended,
\* every CheckIn row of the flight carries the flight's gate, and the boarding
\* pass of every checked-in booking shows the flight's gate and terminal.
C29_GateFollows ==
    (inflight = EmptyBag /\ gate # NoGate) =>
        \A b \in DOMAIN checkins :
            LET pass == get_boarding_pass(DB, checkins, gate, terminal, bookings[b].user, b,
                                              bookings[b].user \in Profiles)
            IN /\ checkins[b] = WithPrefix(gate)
               /\ pass.out = "OK" => pass.boarding_gate = gate /\ pass.terminal = terminal

\* The calls of passenger u on booking b, which belongs to another passenger.
StrangerCalls(u, b) ==
    [pay      |-> Run(DB, create_payment(DB, u, b, now), u, 0, b, now),
     cancel   |-> Run(DB, cancel_booking(DB, u, b), u, 0, b, now),
     check_in |-> {check_in(DB, checkins, u, b, SecondsLeft, gate, rnd) : rnd \in 1..NumGates},
     pass     |-> get_boarding_pass(DB, checkins, gate, terminal, u, b, u \in Profiles)]

\* C30: pay, cancelBooking, checkIn and getBoardingPass called by a passenger
\* who is not the booking's user fail with NotAuthorized and leave every
\* booking, seat, payment, ticket and CheckIn row as it was, whatever the
\* booking's state, an expired CREATED one included.
C30_OnlyOwner ==
    \A b \in DOMAIN bookings : \A u \in Users \ {bookings[b].user} :
        LET call == StrangerCalls(u, b)
        IN /\ call.pay.out = "NotAuthorized" /\ call.pay.db = DB
           /\ call.cancel.out = "NotAuthorized" /\ call.cancel.db = DB
           /\ \A r \in call.check_in :
                  r.out = "NotAuthorized" /\ r.db = DB /\ r.cks = checkins
           /\ call.pass.out = "NotAuthorized"

\* An expired CREATED booking beside a checked-in one, each refused to the
\* other passenger.
C30_Witness ==
    \E b \in DOMAIN bookings, c \in DOMAIN checkins :
        /\ BookingExpired(bookings[b], now)
        /\ \E u \in Users \ {bookings[b].user} :
               StrangerCalls(u, b).pay.out = "NotAuthorized"
        /\ \E u \in Users \ {bookings[c].user} :
               StrangerCalls(u, c).pass.out = "NotAuthorized"

\* update_flight_gate run to its end on the flight's gate and terminal and
\* the CheckIn rows; emits tells whether the store accepts the announcement.
update_flight_gate_run(db, cks, fgate, fterm, g, t, emits) ==
    LET r == update_flight_gate(db, fgate, fterm, g, t)
    IN [gate |-> r.gate, terminal |-> r.terminal,
        cks |-> IF r.check_ins THEN update_check_ins(cks, g) ELSE cks,
        out |-> IF r.ann # {} /\ ~emits THEN "StoreError" ELSE "OK"]

\* C31: when the store refuses the notification of updateFlightStatus,
\* updateFlightGate or reassignSeat, the change that triggered it is
\* committed all the same: the flight has the new status, the flight has the
\* new gate, the booking has the new seat.
C31_NotificationBestEffort ==
    /\ \A st \in FlightStatus \ {flight} :
           RunEmitFails(DB, update_flight_status(DB, st), 0, 0, 0, now).db.flight = st
    /\ \A g \in GateNames \ {gate} :
           update_flight_gate_run(DB, checkins, gate, terminal, g, 0, FALSE).gate = g
    /\ \A b \in DOMAIN bookings : \A ns \in Seats \ {bookings[b].seat} :
           Run(DB, reassign_seat(DB, b, ns), 0, ns, b, now).out = "OK" =>
               RunEmitFails(DB, reassign_seat(DB, b, ns), 0, ns, b, now).db.bookings[b].seat = ns

\* C32: getBoardingPass called by the owner of a booking that has a CheckIn
\* row and a Ticket succeeds, whether the owner has a stored profile or booked
\* with inline passenger data, and no call of it fails otherwise than with
\* NotFound, NotAuthorized, CheckInRequired or TicketMissing.
C32_BoardingPassOutcomes ==
    /\ \A b \in DOMAIN checkins :
           b \in tickets =>
               get_boarding_pass(DB, checkins, gate, terminal, bookings[b].user, b,
                                 bookings[b].user \in Profiles).out = "OK"
    /\ \A u \in Users, b \in BookingArgs :
           get_boarding_pass(DB, checkins, gate, terminal, u, b, u \in Profiles).out
               \in {"OK", "NotFound", "NotAuthorized", "NotCheckedIn", "TicketNotFound"}

\* C33: once shutdown has asked the scheduler task to stop, the task ends,
\* and from the request on the scheduler takes no further step: it makes no
\* flight status transition (a status changes by a staff call only) and
\* commits no notification.
C33_SchedulerStops ==
    /\ (sched.pc = "cancelling") ~> (sched.pc = "cancelled")
    /\ [][sched.pc \in {"cancelling", "cancelled"} =>
              /\ sched'.pc \in {"cancelling", "cancelled"} /\ sched'.todo = <<>>
              /\ fleet' = fleet
              /\ flight' # flight => UpdateFlightStatus]_vars

\* The server stopped after the departure of flight 1, with flights still to
\* arrive.
C33_Witness ==
    /\ sched.pc = "cancelled"
    /\ \E f \in Flights : AllStatus[f] = "DEPARTED" /\ Arrives(f) <= LocalNow

\* The users whose createBooking on seat s succeeds now.
CanBook(s) == {u \in Users : Run(DB, create_booking(DB, u, s, now), u, s, 0, now).out = "OK"}

\* C34: while a seat is HELD by a holdSeat, its hold has not expired and no
\* booking references it, createBooking on it by a user other than the one
\* who holds it is rejected: at most one user can book the seat.
C34_HoldReservesSeat ==
    \A s \in Seats :
        (/\ seats[s].status = "HELD"
         /\ seats[s].hold # NoTime /\ ~Expired(seats[s].hold, now)
         /\ BookingsOfSeat(DB, s) = {}) =>
            Cardinality(CanBook(s)) <= 1

\* C35: a seat listing never overwrites a seat that a payment made BOOKED
\* after the listing read it: among holds, bookings, payments and listings
\* a BOOKED seat stays BOOKED.
C35_ListingKeepsBooked ==
    [][\A s \in Seats : seats[s].status = "BOOKED" => seats'[s].status = "BOOKED"]_vars

\* C36: no step of the sweep turns a CANCELLED flight into DEPARTED, also
\* when staff committed CANCELLED after the sweep selected the flight.
C36_SweepSparesCancelled ==
    [][\A f \in Flights :
           (sched' # sched /\ AllStatus[f] = "CANCELLED") => AllStatus'[f] # "DEPARTED"]_vars

ConfirmedOn(s) == {b \in BookingsOfSeat(DB, s) : bookings[b].status = "CONFIRMED"}

\* C37: in every state reached by operations run one after the other, a seat
\* is BOOKED if and only if exactly one CONFIRMED booking references it.
C37_BookedIffConfirmed ==
    \A s \in Seats : seats[s].status = "BOOKED" <=> Cardinality(ConfirmedOn(s)) = 1

\* A BOOKED seat beside a seat that a cancelled booking has given up.
C37_Witness ==
    \E s, s2 \in Seats :
        /\ seats[s].status = "BOOKED" /\ Cardinality(ConfirmedOn(s)) = 1
        /\ seats[s2].status # "BOOKED"
        /\ \E b \in BookingsOfSeat(DB, s2) : bookings[b].status = "CANCELLED"

C39_HeldHasExpiry ==
    \A s \in Seats : seats[s].status = "HELD" => seats[s].hold # NoTime

\* C40: every Payment row is PAID and has a transaction id, so that no pay
\* takes the retry branch and no checkIn promotes a payment.
C40_PaymentsArePaid ==
    /\ \A b \in DOMAIN payments : payments[b].status = "PAID" /\ payments[b].txn >= 1
    /\ \A u \in Users, b \in BookingArgs :
           /\ create_payment(DB, u, b, now).ws.payUpd = {}
           /\ \A rnd \in 1..NumGates :
                  check_in(DB, checkins, u, b, SecondsLeft, gate, rnd).db = DB

\* A paid booking whose owner pays again and checks in.
C40_Witness ==
    \E b \in DOMAIN payments :
        /\ Run(DB, create_payment(DB, bookings[b].user, b, now), 0, 0, b, now).out = "OK"
        /\ b \in DOMAIN checkins
        /\ OwnerCheckIn(b).out = "OK"

====
